---- MODULE Spec2Model ----
(***************************************************************************)
(* Model of the nginx-ingress replica-count custom resource handler        *)
(* (assets/_lambda/handler.py) and of the remote parameter store it reads. *)
(*                                                                         *)
(* Python str values whose characters matter (parameter values) are        *)
(* sequences of code points; identifiers (dictionary keys, parameter       *)
(* names, error codes, messages) are TLA+ strings.  Python dicts are       *)
(* functions whose DOMAIN is the set of keys present.                      *)
(***************************************************************************)
EXTENDS Integers, Sequences, FiniteSets, TLC

VARIABLES
    environ,     \* os.environ restricted to the key the handler reads
    store,       \* remote parameter store: dict parameter name -> value
    fault,       \* failure mode of the ssm client / remote service
    pc,          \* per invocation slot: position in on_event
    event,       \* per slot: the event on_event was called with
    param_name,  \* per slot: local param_name of on_event
    observed,    \* per slot: outcome of the get_parameter call it made
    result,      \* per slot: the dict on_event returned
    error,       \* per slot: message of the exception on_event raised
    reads,       \* per slot: number of get_parameter calls of the invocation
    arg,         \* argument of the latest direct call of _replicas_from_env
    ret,         \* its return value (0: not called yet)
    net_pc,      \* position in NetworkStack.__init__
    vpc_cidr,    \* NetworkStack.vpc_cidr
    vpc,         \* the AWS::EC2::VPC resource of the network stack
    net_error,   \* type of the exception NetworkStack.__init__ raised
    ctx_environment,   \* context value "environment" (None: not given)
    ctx_service_name,  \* context value "service_name" (None: not given)
    ctx_entries,       \* context entries of the environments, by name
    app_pc,            \* position in app.py
    app_error,         \* type of the exception app.py ended with
    env_name,          \* app.py: env_name
    constructed,       \* stacks whose constructor has returned
    deps,              \* declared dependencies <<stack, stack it depends on>>
    cluster_param,     \* the AWS::SSM::Parameter declared by ClusterStack
    lambda_environment,\* environment declared for the replica lambda
    deploy_order,      \* stacks provisioned so far, in order
    ingress_pc,        \* position in the provisioning of the ingress stack
    helm               \* values the Helm chart was installed with

vars == <<environ, store, fault, pc, event, param_name, observed, result,
          error, reads, arg, ret, net_pc, vpc_cidr, vpc, net_error,
          ctx_environment, ctx_service_name, ctx_entries, app_pc, app_error,
          env_name, constructed, deps, cluster_param, lambda_environment,
          deploy_order, ingress_pc, helm>>

handlerVars == <<environ, store, fault, pc, event, param_name, observed,
                 result, error, reads>>

mapVars == <<arg, ret>>

netVars == <<net_pc, vpc_cidr, vpc, net_error>>

ctxVars == <<ctx_environment, ctx_service_name, ctx_entries>>

appVars == <<ctxVars, app_pc, app_error, env_name, constructed, deps,
             cluster_param, lambda_environment>>

deployVars == <<deploy_order, ingress_pc, helm>>

\* the variables of the stacks and of their deployment
synthVars == <<netVars, appVars, deployVars>>

(***************************************************************************)
(* Bounds                                                                  *)
(***************************************************************************)
\* longest run of whitespace put before / after a word
MaxPad == 1
\* longest upper-cased prefix of a word (besides the whole word)
MaxUpper == 1

(***************************************************************************)
(* Python values                                                           *)
(***************************************************************************)
\* None where a str of code points is expected
None == << -1 >>
\* None where an identifier is expected
NoneName == "None"

\* "development", "staging", "production"
development == <<100, 101, 118, 101, 108, 111, 112, 109, 101, 110, 116>>
staging == <<115, 116, 97, 103, 105, 110, 103>>
production == <<112, 114, 111, 100, 117, 99, 116, 105, 111, 110>>

\* code points c with chr(c).isspace(), ASCII range
Whitespace == (9..13) \cup (28..32)

\* str.lower() on ASCII code points
Lower(s) == [i \in 1..Len(s) |-> IF s[i] \in 65..90 THEN s[i] + 32 ELSE s[i]]

RECURSIVE LStrip(_)
LStrip(s) == IF s # <<>> /\ Head(s) \in Whitespace THEN LStrip(Tail(s)) ELSE s

RECURSIVE RStrip(_)
RStrip(s) ==
    IF s # <<>> /\ s[Len(s)] \in Whitespace
    THEN RStrip(SubSeq(s, 1, Len(s) - 1))
    ELSE s

\* str.strip()
Strip(s) == RStrip(LStrip(s))

\* (env_value or ""): None and "" are falsy
OrEmpty(v) == IF v = None \/ v = <<>> THEN <<>> ELSE v

\* the mapping without "production" in the two-replica set
_replicas_from_env_NoProduction(v) ==
    LET env_value == Lower(Strip(OrEmpty(v)))
    IN  IF env_value = development THEN 1
        ELSE IF env_value = staging THEN 2
        ELSE 1

\* the mapping without the lower-casing
_replicas_from_env_NoLower(v) ==
    LET env_value == Strip(OrEmpty(v))
    IN  IF env_value = development THEN 1
        ELSE IF env_value \in {staging, production} THEN 2
        ELSE 1

\* the mapping with three replicas for production
_replicas_from_env_ProductionThree(v) ==
    LET env_value == Lower(Strip(OrEmpty(v)))
    IN  IF env_value = development THEN 1
        ELSE IF env_value = staging THEN 2
        ELSE IF env_value = production THEN 3
        ELSE 1

\* handler.py:20-34
_replicas_from_env(v) ==
    LET env_value == Lower(Strip(OrEmpty(v)))
    IN  IF env_value = development THEN 1
        ELSE IF env_value \in {staging, production} THEN 2
        ELSE 1

(***************************************************************************)
(* Inputs of the mapping: words, padded with whitespace and re-cased       *)
(***************************************************************************)
\* "", the three environments, "stagin", "stag ing", "qa", "prod"
Words == { <<>>, development, staging, production,
           <<115, 116, 97, 103, 105, 110>>,
           <<115, 116, 97, 103, 32, 105, 110, 103>>,
           <<113, 97>>,
           <<112, 114, 111, 100>> }

\* space, tab, newline
PadChars == {32, 9, 10}

Pads == UNION { [1..n -> PadChars] : n \in 0..MaxPad }

\* w with its first k letters upper-cased
UpperFirst(w, k) ==
    [i \in 1..Len(w) |-> IF i <= k /\ w[i] \in 97..122 THEN w[i] - 32 ELSE w[i]]

Recased(w) == { UpperFirst(w, k) : k \in (0..MaxUpper) \cup {Len(w)} }

MapInputs ==
    {None} \cup
    { pre \o c \o post : pre \in Pads, post \in Pads,
                         c \in UNION { Recased(w) : w \in Words } }

(***************************************************************************)
(* Direct calls of the mapping                                             *)
(***************************************************************************)
\* ret = _replicas_from_env(arg)
ApplyMap ==
    /\ ret = 0
    /\ ret' = _replicas_from_env(arg)
    /\ UNCHANGED <<arg, handlerVars, synthVars>>

\* the caller picks the next argument
NextInput(v) ==
    /\ ret # 0
    /\ arg' = v
    /\ ret' = 0
    /\ UNCHANGED <<handlerVars, synthVars>>

(***************************************************************************)
(* The process environment, the remote store and the ssm client            *)
(***************************************************************************)
Slots == {"a", "b"}

\* parameter names the ENVIRONMENT variable may hold
EnvNames == {"/platform/account/env", "/another/env"}

\* the parameter that is ever written to the store
StoredNames == {"/platform/account/env"}

\* values the remote parameter may hold:
\* "development", "staging", "production", " Staging ", "PRODUCTION\n", "qa"
StoreValues == { development, staging, production,
                 <<32, 83, 116, 97, 103, 105, 110, 103, 32>>,
                 <<80, 82, 79, 68, 85, 67, 84, 73, 79, 78, 10>>,
                 <<113, 97>> }

\* "none": the service answers; an error code: get_parameter raises
\* ClientError with that code; "MalformedResponse": the response lacks
\* Parameter/Value; "EndpointConnectionError": a non-ClientError exception
Faults == {"none", "AccessDeniedException", "MalformedResponse",
           "EndpointConnectionError"}

EmptyDict == [k \in {} |-> k]

\* dict.get(key, default)
DictGet(d, key, default) == IF key \in DOMAIN d THEN d[key] ELSE default

\* the dict d with d[key] = value
DictSet(d, key, value) ==
    [k \in DOMAIN d \cup {key} |-> IF k = key THEN value ELSE d[k]]

\* the dict d without key
DictDel(d, key) == [k \in DOMAIN d \ {key} |-> d[k]]

\* no get_parameter call was made
NoRead == [kind |-> "noread", code |-> "", value |-> None]

\* ssm.get_parameter(Name=name): the response, or the exception it raises
ssm_get_parameter(name) ==
    IF fault = "none"
    THEN IF name \in DOMAIN store
         THEN [kind |-> "ok", code |-> "", value |-> store[name]]
         ELSE [kind |-> "ClientError", code |-> "ParameterNotFound",
               value |-> None]
    ELSE IF fault = "AccessDeniedException"
    THEN [kind |-> "ClientError", code |-> fault, value |-> None]
    ELSE IF fault = "MalformedResponse"
    THEN [kind |-> "KeyError", code |-> "", value |-> None]
    ELSE [kind |-> "Exception", code |-> fault, value |-> None]

\* a call that returned v after making n get_parameter calls
Ret(v, n) == [raised |-> FALSE, value |-> v, calls |-> n]
\* a call that raised after making n get_parameter calls
Raise(n) == [raised |-> TRUE, value |-> None, calls |-> n]

\* _get_env_value re-raising a ClientError other than ParameterNotFound
_get_env_value_RaiseOtherClientError(name) ==
    LET response == ssm_get_parameter(name)
    IN  IF response.kind = "ok" THEN Ret(response.value, 1)
        ELSE IF response.kind = "ClientError"
        THEN IF response.code = "ParameterNotFound"
             THEN Ret(development, 1)
             ELSE Raise(1)
        ELSE Ret(development, 1)

\* _get_env_value without the final "except Exception"
_get_env_value_NoCatchAll(name) ==
    LET response == ssm_get_parameter(name)
    IN  IF response.kind = "ok" THEN Ret(response.value, 1)
        ELSE IF response.kind = "ClientError" THEN Ret(development, 1)
        ELSE Raise(1)

\* _get_env_value returning the value trimmed and lower-cased
_get_env_value_Normalized(name) ==
    LET response == ssm_get_parameter(name)
    IN  IF response.kind = "ok" THEN Ret(Lower(Strip(response.value)), 1)
        ELSE Ret(development, 1)

\* _get_env_value trying get_parameter a second time after a failure
_get_env_value_Retry(name) ==
    LET response == ssm_get_parameter(name)
    IN  IF response.kind = "ok" THEN Ret(response.value, 1)
        ELSE Ret(development, 2)

\* _get_env_value falling back without a read while another invocation is
\* between its entry and its read (the shared ssm client taken as busy)
_get_env_value_BusyClient(name) ==
    LET response == ssm_get_parameter(name)
        busy == Cardinality({ q \in DOMAIN pc : pc[q] = "fetch" }) > 1
    IN  IF busy THEN Ret(development, 0)
        ELSE IF response.kind = "ok" THEN Ret(response.value, 1)
        ELSE Ret(development, 1)

\* handler.py:36-57
_get_env_value(name) ==
    LET response == ssm_get_parameter(name)
    IN  IF response.kind = "ok" THEN Ret(response.value, 1)
        ELSE IF response.kind = "ClientError"
        THEN IF response.code = "ParameterNotFound"
             THEN Ret(development, 1)
             ELSE Ret(development, 1)
        ELSE Ret(development, 1)

(***************************************************************************)
(* on_event                                                                *)
(***************************************************************************)
Events == {EmptyDict} \cup
          { [RequestType |-> t] : t \in {"Create", "Update", "Delete"} }

NoResult == EmptyDict

Terminal == {"returned", "raised"}

\* on_event keeping its result in one place shared by all invocations
Invoke_SharedResult(p, ev) ==
    /\ pc[p] \in {"idle"} \cup Terminal
    /\ pc' = [pc EXCEPT ![p] = "entry"]
    /\ event' = [event EXCEPT ![p] = ev]
    /\ param_name' = [param_name EXCEPT ![p] = NoneName]
    /\ observed' = [observed EXCEPT ![p] = NoRead]
    /\ result' = [q \in DOMAIN result |-> NoResult]
    /\ error' = [error EXCEPT ![p] = ""]
    /\ reads' = [reads EXCEPT ![p] = 0]
    /\ UNCHANGED <<environ, store, fault, mapVars, synthVars>>

\* the framework calls on_event(ev, context) in slot p
Invoke(p, ev) ==
    /\ pc[p] \in {"idle"} \cup Terminal
    /\ pc' = [pc EXCEPT ![p] = "entry"]
    /\ event' = [event EXCEPT ![p] = ev]
    /\ param_name' = [param_name EXCEPT ![p] = NoneName]
    /\ observed' = [observed EXCEPT ![p] = NoRead]
    /\ result' = [result EXCEPT ![p] = NoResult]
    /\ error' = [error EXCEPT ![p] = ""]
    /\ reads' = [reads EXCEPT ![p] = 0]
    /\ UNCHANGED <<environ, store, fault, mapVars, synthVars>>

\* the dict returned for a Delete, with the fallback environment added
DeleteResponse_WithEnvironment ==
    [Data |-> [ReplicaCount |-> 1, EnvironmentValue |-> development]]

\* handler.py:80-82
DeleteResponse == [Data |-> [ReplicaCount |-> 1]]

\* not name: None and "" are falsy
Falsy(name) == name = NoneName \/ name = ""

\* the request type with "Delete" as the default
GetRequestType_DefaultDelete(ev) == DictGet(ev, "RequestType", "Delete")

\* handler.py:72: event.get("RequestType", "Create")
GetRequestType(ev) == DictGet(ev, "RequestType", "Create")

\* the branches with only "Create" leading to the fetch
EntryBranch_OnlyCreateFetches(request_type, name) ==
    IF Falsy(name) THEN "raise"
    ELSE IF request_type # "Create" THEN "delete"
    ELSE "fetch"

\* the branches with the Delete test ahead of the ENVIRONMENT test
EntryBranch_DeleteFirst(request_type, name) ==
    IF request_type = "Delete" THEN "delete"
    ELSE IF Falsy(name) THEN "raise"
    ELSE "fetch"

\* handler.py:75-85: the branch on_event takes
EntryBranch(request_type, name) ==
    IF Falsy(name) THEN "raise"
    ELSE IF request_type = "Delete" THEN "delete"
    ELSE "fetch"

\* handler.py:72-82
OnEventEntry(p) ==
    /\ pc[p] = "entry"
    /\ LET request_type == GetRequestType(event[p])
           name == DictGet(environ, "ENVIRONMENT", NoneName)
           branch == EntryBranch(request_type, name)
       IN  /\ param_name' = [param_name EXCEPT ![p] = name]
           /\ IF branch = "raise"
              THEN /\ pc' = [pc EXCEPT ![p] = "raised"]
                   /\ error' = [error EXCEPT ![p] =
                          "ENVIRONMENT environment variable is required"]
                   /\ UNCHANGED result
              ELSE IF branch = "delete"
              THEN /\ pc' = [pc EXCEPT ![p] = "returned"]
                   /\ result' = [result EXCEPT ![p] = DeleteResponse]
                   /\ UNCHANGED error
              ELSE /\ pc' = [pc EXCEPT ![p] = "fetch"]
                   /\ UNCHANGED <<result, error>>
    /\ UNCHANGED <<environ, store, fault, event, observed, reads, mapVars, synthVars>>

\* handler.py:84-94
OnEventFetch(p) ==
    /\ pc[p] = "fetch"
    /\ LET r == _get_env_value(param_name[p])
       IN  /\ observed' = [observed EXCEPT ![p] =
                  ssm_get_parameter(param_name[p])]
           /\ reads' = [reads EXCEPT ![p] = @ + r.calls]
           /\ IF r.raised
              THEN /\ pc' = [pc EXCEPT ![p] = "raised"]
                   /\ error' = [error EXCEPT ![p] = "get_parameter failed"]
                   /\ UNCHANGED result
              ELSE LET env_value == r.value
                       replica_count == _replicas_from_env(env_value)
                   IN  /\ pc' = [pc EXCEPT ![p] = "returned"]
                       /\ result' = [result EXCEPT ![p] =
                              [Data |-> [ReplicaCount |-> replica_count,
                                         EnvironmentValue |-> env_value]]]
                       /\ UNCHANGED error
    /\ UNCHANGED <<environ, store, fault, event, param_name, mapVars, synthVars>>

(***************************************************************************)
(* The second copy of the handler, assets/lambda/handler.py                *)
(***************************************************************************)
\* lambda/handler.py:6-12
lambda_replicas_from_env(v) ==
    LET env_value == Lower(Strip(OrEmpty(v)))
    IN  IF env_value = development THEN 1
        ELSE IF env_value = staging \/ env_value = production THEN 2
        ELSE 1

\* the copy's _get_env_value letting a BotoCoreError through
lambda_get_env_value_RaiseBotoCoreError(name) ==
    LET response == ssm_get_parameter(name)
    IN  IF response.kind = "ok" THEN Ret(response.value, 1)
        ELSE IF response.kind = "ClientError" THEN Ret(development, 1)
        ELSE IF response.code = "EndpointConnectionError" THEN Raise(1)
        ELSE Ret(development, 1)

\* lambda/handler.py:14-31; EndpointConnectionError is a BotoCoreError
lambda_get_env_value(name) ==
    LET response == ssm_get_parameter(name)
    IN  IF response.kind = "ok" THEN Ret(response.value, 1)
        ELSE IF response.kind = "ClientError"
        THEN IF response.code = "ParameterNotFound"
             THEN Ret(development, 1)
             ELSE Ret(development, 1)
        ELSE IF response.code = "EndpointConnectionError"
        THEN Ret(development, 1)
        ELSE Ret(development, 1)

\* lambda/handler.py:34-45
LambdaOnEventEntry(p) ==
    /\ pc[p] = "entry"
    /\ LET request_type == DictGet(event[p], "RequestType", "Create")
           name == DictGet(environ, "ENVIRONMENT", NoneName)
       IN  /\ param_name' = [param_name EXCEPT ![p] = name]
           /\ IF name = NoneName \/ name = ""
              THEN /\ pc' = [pc EXCEPT ![p] = "raised"]
                   /\ error' = [error EXCEPT ![p] =
                          "ENVIRONMENT environment variable is required"]
                   /\ UNCHANGED result
              ELSE IF request_type = "Delete"
              THEN /\ pc' = [pc EXCEPT ![p] = "returned"]
                   /\ result' = [result EXCEPT ![p] =
                          [PhysicalResourceId |-> name,
                           Data |-> [ReplicaCount |-> 1]]]
                   /\ UNCHANGED error
              ELSE /\ pc' = [pc EXCEPT ![p] = "fetch"]
                   /\ UNCHANGED <<result, error>>
    /\ UNCHANGED <<environ, store, fault, event, observed, reads, mapVars, synthVars>>

\* lambda/handler.py:47-58
LambdaOnEventFetch(p) ==
    /\ pc[p] = "fetch"
    /\ LET r == lambda_get_env_value(param_name[p])
       IN  /\ observed' = [observed EXCEPT ![p] =
                  ssm_get_parameter(param_name[p])]
           /\ reads' = [reads EXCEPT ![p] = @ + r.calls]
           /\ IF r.raised
              THEN /\ pc' = [pc EXCEPT ![p] = "raised"]
                   /\ error' = [error EXCEPT ![p] = "get_parameter failed"]
                   /\ UNCHANGED result
              ELSE LET env_value == r.value
                       replica_count == lambda_replicas_from_env(env_value)
                   IN  /\ pc' = [pc EXCEPT ![p] = "returned"]
                       /\ result' = [result EXCEPT ![p] =
                              [PhysicalResourceId |-> param_name[p],
                               Data |-> [ReplicaCount |-> replica_count,
                                         EnvironmentValue |-> env_value]]]
                       /\ UNCHANGED error
    /\ UNCHANGED <<environ, store, fault, event, param_name, mapVars, synthVars>>

(***************************************************************************)
(* The world around the handler                                            *)
(***************************************************************************)
\* monkeypatch.setenv("ENVIRONMENT", v) / the lambda's configured environment
SetEnv(v) ==
    /\ environ' = DictSet(environ, "ENVIRONMENT", v)
    /\ environ' # environ
    /\ UNCHANGED <<store, fault, pc, event, param_name, observed, result,
                   error, reads, mapVars, synthVars>>

\* monkeypatch.delenv("ENVIRONMENT")
DelEnv ==
    /\ "ENVIRONMENT" \in DOMAIN environ
    /\ environ' = DictDel(environ, "ENVIRONMENT")
    /\ UNCHANGED <<store, fault, pc, event, param_name, observed, result,
                   error, reads, mapVars, synthVars>>

\* put_parameter(Name=n, Value=v) by some writer of the store
PutParameter(n, v) ==
    /\ store' = DictSet(store, n, v)
    /\ store' # store
    /\ UNCHANGED <<environ, fault, pc, event, param_name, observed, result,
                   error, reads, mapVars, synthVars>>

\* the parameter is removed from the store
DeleteParameter(n) ==
    /\ n \in DOMAIN store
    /\ store' = DictDel(store, n)
    /\ UNCHANGED <<environ, fault, pc, event, param_name, observed, result,
                   error, reads, mapVars, synthVars>>

\* the service starts or stops failing
SetFault(f) ==
    /\ f # fault
    /\ fault' = f
    /\ UNCHANGED <<environ, store, pc, event, param_name, observed, result,
                   error, reads, mapVars, synthVars>>

(***************************************************************************)
(* ipaddress.ip_network on IPv4 text (strings without ':')                 *)
(***************************************************************************)
\* s.split(chr(c))
RECURSIVE SplitOn(_, _)
SplitOn(s, c) ==
    IF \A i \in 1..Len(s) : s[i] # c
    THEN <<s>>
    ELSE LET k == CHOOSE i \in 1..Len(s) :
                      s[i] = c /\ \A j \in 1..(i - 1) : s[j] # c
         IN  <<SubSeq(s, 1, k - 1)>> \o SplitOn(SubSeq(s, k + 1, Len(s)), c)

\* s.isascii() and s.isdigit()
IsDigits(s) == s # <<>> /\ \A i \in 1..Len(s) : s[i] \in 48..57

\* int(s) for a string of digits
RECURSIVE ToInt(_)
ToInt(s) ==
    IF s = <<>> THEN 0
    ELSE 10 * ToInt(SubSeq(s, 1, Len(s) - 1)) + (s[Len(s)] - 48)

\* IPv4Address._parse_octet accepts s
OctetOk(s) ==
    /\ IsDigits(s)
    /\ Len(s) <= 3
    /\ ~(Len(s) > 1 /\ s[1] = 48)
    /\ ToInt(s) <= 255

\* the four octets of a dotted quad, <<>> when s is not one
Octets(s) ==
    LET parts == SplitOn(s, 46)
    IN  IF s # <<>> /\ Len(parts) = 4 /\ \A i \in 1..4 : OctetOk(parts[i])
        THEN [i \in 1..4 |-> ToInt(parts[i])]
        ELSE <<>>

\* number of host bits of octet k under prefix length n
HostBits(k, n) ==
    LET h == 8 * k - n IN IF h < 0 THEN 0 ELSE IF h > 8 THEN 8 ELSE h

\* the netmask and the hostmask of prefix length n, as octets
NetmaskOf(n) == [k \in 1..4 |-> 256 - 2 ^ HostBits(k, n)]
HostmaskOf(n) == [k \in 1..4 |-> 2 ^ HostBits(k, n) - 1]

\* the prefix length a mask string stands for, -1 when it is not a mask:
\* decimal prefix length first, then dotted netmask, then dotted hostmask
PrefixOf(m) ==
    IF IsDigits(m)
    THEN IF ToInt(m) <= 32 THEN ToInt(m) ELSE -1
    ELSE LET o == Octets(m)
         IN  IF o = <<>> THEN -1
             ELSE IF \E n \in 0..32 : o = NetmaskOf(n)
             THEN CHOOSE n \in 0..32 : o = NetmaskOf(n)
             ELSE IF \E n \in 0..32 : o = HostmaskOf(n)
             THEN CHOOSE n \in 0..32 : o = HostmaskOf(n)
             ELSE -1

\* ipaddress.ip_network(s) returns (strict: no host bits set)
IpNetworkOk(s) ==
    LET parts == SplitOn(s, 47)
        o == Octets(parts[1])
        n == IF Len(parts) = 2 THEN PrefixOf(parts[2]) ELSE 32
    IN  /\ Len(parts) <= 2
        /\ o # <<>>
        /\ n >= 0
        /\ \A k \in 1..4 : o[k] % (2 ^ HostBits(k, n)) = 0

(***************************************************************************)
(* NetworkStack                                                            *)
(***************************************************************************)
\* address parts: "10.0.0.0", "172.16.0.0", "192.168.0.0", "256.0.0.0",
\* "10.0.0.256", "not-an-ip", "", "10.0.0.1", "10.0.0"
CidrAddresses == { <<49, 48, 46, 48, 46, 48, 46, 48>>,
                   <<49, 55, 50, 46, 49, 54, 46, 48, 46, 48>>,
                   <<49, 57, 50, 46, 49, 54, 56, 46, 48, 46, 48>>,
                   <<50, 53, 54, 46, 48, 46, 48, 46, 48>>,
                   <<49, 48, 46, 48, 46, 48, 46, 50, 53, 54>>,
                   <<110, 111, 116, 45, 97, 110, 45, 105, 112>>,
                   <<>>,
                   <<49, 48, 46, 48, 46, 48, 46, 49>>,
                   <<49, 48, 46, 48, 46, 48>> }

\* mask parts: "", "/", "/16", "/8", "/33", "/-1", "/abc", "/16/24",
\* "/255.255.0.0", "/0.0.255.255"
CidrMasks == { <<>>, <<47>>, <<47, 49, 54>>, <<47, 56>>, <<47, 51, 51>>,
               <<47, 45, 49>>, <<47, 97, 98, 99>>,
               <<47, 49, 54, 47, 50, 52>>,
               <<47, 50, 53, 53, 46, 50, 53, 53, 46, 48, 46, 48>>,
               <<47, 48, 46, 48, 46, 50, 53, 53, 46, 50, 53, 53>> }

CidrInputs == { a \o m : a \in CidrAddresses, m \in CidrMasks }

NoVpc == EmptyDict

\* s is written as address "/" decimal prefix length
HasPrefixLength(s) ==
    LET parts == SplitOn(s, 47) IN Len(parts) = 2 /\ IsDigits(parts[2])

\* the validation accepting every string
ValidateCidr_AcceptAll(cidr) == "ok"

\* network_stack.py:35-38
ValidateCidr(cidr) == IF IpNetworkOk(cidr) THEN "ok" ELSE "ValueError"

\* network_stack.py:40-41: ip_addresses=ec2.IpAddresses.cidr(self.vpc_cidr)
VpcResource(cidr) == [CidrBlock |-> cidr]

\* network_stack.py:30-33
NetworkStackBegin(cidr) ==
    /\ net_pc \in {"new", "done", "raised"}
    /\ net_pc' = "validate"
    /\ vpc_cidr' = cidr
    /\ vpc' = NoVpc
    /\ net_error' = ""

\* NetworkStack(app, id, service_name=..., vpc_cidr=cidr, env=env)
NetworkStackInit(cidr) ==
    /\ NetworkStackBegin(cidr)
    /\ UNCHANGED <<handlerVars, mapVars, appVars, deployVars>>

\* network_stack.py:35-38
NetworkStackValidate ==
    /\ net_pc = "validate"
    /\ IF ValidateCidr(vpc_cidr) = "ok"
       THEN /\ net_pc' = "vpc"
            /\ UNCHANGED net_error
       ELSE /\ net_pc' = "raised"
            /\ net_error' = "ValueError"
    /\ UNCHANGED <<vpc_cidr, vpc, handlerVars, mapVars, appVars, deployVars>>

\* network_stack.py:40-75; ec2.Vpc takes address/prefix-length notation and
\* raises its own error on anything else (test_network_stack.py:136)
NetworkStackCreateVpc ==
    /\ net_pc = "vpc"
    /\ IF HasPrefixLength(vpc_cidr)
       THEN /\ vpc' = VpcResource(vpc_cidr)
            /\ net_pc' = "done"
            /\ UNCHANGED net_error
       ELSE /\ net_pc' = "raised"
            /\ net_error' = "RuntimeError"
            /\ UNCHANGED vpc
    /\ UNCHANGED <<vpc_cidr, handlerVars, mapVars, appVars, deployVars>>

NetInit ==
    /\ net_pc = "new"
    /\ vpc_cidr = <<>>
    /\ vpc = NoVpc
    /\ net_error = ""

(***************************************************************************)
(* app.py: the context, the three stacks and their dependencies            *)
(***************************************************************************)
\* "dev", "stg", "prod": the environments app.py names as available
dev == <<100, 101, 118>>
stg == <<115, 116, 103>>
prod == <<112, 114, 111, 100>>

EnvKeys == {dev, stg, prod}

\* values of the context "environment": not given, "", the three
\* environments, and "qa"
CtxEnvironments == {None, <<>>, <<113, 97>>} \cup EnvKeys

CtxServiceNames == {NoneName, "", "platform"}

\* vpc_cidr of the context entries: "10.0.0.0/16", "10.0.0.0/33", "10.0.0.0"
CtxCidrs == { <<49, 48, 46, 48, 46, 48, 46, 48, 47, 49, 54>>,
              <<49, 48, 46, 48, 46, 48, 46, 48, 47, 51, 51>>,
              <<49, 48, 46, 48, 46, 48, 46, 48>> }

Stacks == {"NetworkStack", "ClusterStack", "NginxIngressStack"}

NoParameter == EmptyDict
NoHelm == EmptyDict

\* app.py:18: try_get_context("environment") or "dev"
EnvNameOf(v) == IF v = None \/ v = <<>> THEN dev ELSE v

\* the context checks without the one of service_name
ContextError_NoServiceNameCheck(name, service_name) ==
    IF name \notin DOMAIN ctx_entries THEN "ValueError" ELSE ""

\* app.py:19-25: the error the context checks raise, "" when they pass
ContextError(name, service_name) ==
    IF name \notin DOMAIN ctx_entries THEN "ValueError"
    ELSE IF service_name = NoneName \/ service_name = "" THEN "ValueError"
    ELSE ""

\* app.py:15-32
AppReadContext ==
    /\ app_pc = "start"
    /\ env_name' = EnvNameOf(ctx_environment)
    /\ LET e == ContextError(env_name', ctx_service_name)
       IN  IF e # ""
           THEN /\ app_pc' = "aborted"
                /\ app_error' = e
           ELSE /\ app_pc' = "network"
                /\ UNCHANGED app_error
    /\ UNCHANGED <<ctxVars, constructed, deps, cluster_param,
                   lambda_environment, deployVars, netVars, handlerVars,
                   mapVars>>

\* app.py:35-39: NetworkStack(..., vpc_cidr=env_context["vpc_cidr"], ...)
AppNetworkStack ==
    /\ app_pc = "network"
    /\ NetworkStackBegin(ctx_entries[env_name].vpc_cidr)
    /\ app_pc' = "network_init"
    /\ UNCHANGED <<ctxVars, app_error, env_name, constructed, deps,
                   cluster_param, lambda_environment, deployVars, handlerVars,
                   mapVars>>

\* the NetworkStack constructor returns or raises
AppNetworkStackReturn ==
    /\ app_pc = "network_init"
    /\ net_pc \in {"done", "raised"}
    /\ IF net_pc = "done"
       THEN /\ constructed' = constructed \cup {"NetworkStack"}
            /\ app_pc' = "cluster"
            /\ UNCHANGED app_error
       ELSE /\ app_pc' = "aborted"
            /\ app_error' = net_error
            /\ UNCHANGED constructed
    /\ UNCHANGED <<ctxVars, env_name, deps, cluster_param,
                   lambda_environment, deployVars, netVars, handlerVars,
                   mapVars>>

\* cluster_stacks.py:34
ClusterParameterName == "/platform/account/env"

\* cluster_stacks.py:22: try_get_context("environment") or "development"
ClusterEnvContext(v) == IF v = None \/ v = <<>> THEN development ELSE v

\* app.py:42-47, cluster_stacks.py:17-85.  ClusterStack hands the keyword
\* arguments service_name and environment_name, which it does not use, on to
\* aws_cdk.Stack; whether the library takes them (accepted) or raises
\* TypeError is its decision.
AppClusterStack ==
    /\ app_pc = "cluster"
    /\ \E accepted \in BOOLEAN :
           IF accepted
           THEN /\ cluster_param' =
                       [Name |-> ClusterParameterName,
                        Value |-> ClusterEnvContext(ctx_environment)]
                /\ constructed' = constructed \cup {"ClusterStack"}
                /\ app_pc' = "ingress"
                /\ UNCHANGED app_error
           ELSE /\ app_pc' = "aborted"
                /\ app_error' = "TypeError"
                /\ UNCHANGED <<cluster_param, constructed>>
    /\ UNCHANGED <<ctxVars, env_name, deps, lambda_environment, deployVars,
                   netVars, handlerVars, mapVars>>

\* the replica lambda configured to read another parameter
LambdaEnvironment_OtherName == [ENVIRONMENT |-> "/platform/env"]

\* nginx_ingress_stack.py:68-70
LambdaEnvironment == [ENVIRONMENT |-> "/platform/account/env"]

\* app.py:50-53, nginx_ingress_stack.py:32-102
AppNginxIngressStack ==
    /\ app_pc = "ingress"
    /\ lambda_environment' = LambdaEnvironment
    /\ constructed' = constructed \cup {"NginxIngressStack"}
    /\ app_pc' = "deps"
    /\ UNCHANGED <<ctxVars, app_error, env_name, deps, cluster_param,
                   deployVars, netVars, handlerVars, mapVars>>

\* the dependencies without the one of the ingress stack
AppDependencies_ClusterOnly == { <<"ClusterStack", "NetworkStack">> }

\* app.py:56-57
AppDependencies == { <<"ClusterStack", "NetworkStack">>,
                     <<"NginxIngressStack", "ClusterStack">> }

\* app.py:55-57
AppAddDependencies ==
    /\ app_pc = "deps"
    /\ deps' = deps \cup AppDependencies
    /\ app_pc' = "synth"
    /\ UNCHANGED <<ctxVars, app_error, env_name, constructed, cluster_param,
                   lambda_environment, deployVars, netVars, handlerVars,
                   mapVars>>

\* app.py:59
AppSynth ==
    /\ app_pc = "synth"
    /\ app_pc' = "synthesized"
    /\ UNCHANGED <<ctxVars, app_error, env_name, constructed, deps,
                   cluster_param, lambda_environment, deployVars, netVars,
                   handlerVars, mapVars>>

(***************************************************************************)
(* Provisioning of the synthesized stacks                                  *)
(***************************************************************************)
Deployed == { deploy_order[i] : i \in 1..Len(deploy_order) }

DependenciesOf(s) == { d \in Stacks : <<s, d>> \in deps }

\* a stack may be provisioned once the stacks it depends on are
CanDeploy(s) ==
    /\ app_pc = "synthesized"
    /\ s \in constructed
    /\ s \notin Deployed
    /\ DependenciesOf(s) \subseteq Deployed

\* network_stack.py:40-75: the VPC and its subnets are created
DeployNetworkStack ==
    /\ CanDeploy("NetworkStack")
    /\ deploy_order' = Append(deploy_order, "NetworkStack")
    /\ UNCHANGED <<ingress_pc, helm, appVars, netVars, handlerVars, mapVars>>

\* cluster_stacks.py:33-85: the parameter and the cluster are created
DeployClusterStack ==
    /\ CanDeploy("ClusterStack")
    /\ store' = DictSet(store, cluster_param.Name, cluster_param.Value)
    /\ deploy_order' = Append(deploy_order, "ClusterStack")
    /\ UNCHANGED <<ingress_pc, helm, appVars, netVars, environ, fault, pc,
                   event, param_name, observed, result, error, reads, mapVars>>

\* nginx_ingress_stack.py:49-75: the role, the lambda and its provider
DeployIngressLambda ==
    /\ CanDeploy("NginxIngressStack")
    /\ ingress_pc = "pending"
    /\ environ' = lambda_environment
    /\ ingress_pc' = "lambda"
    /\ UNCHANGED <<deploy_order, helm, appVars, netVars, store, fault, pc,
                   event, param_name, observed, result, error, reads, mapVars>>

\* nginx_ingress_stack.py:76-80: creating the custom resource calls on_event
CustomResourceCreate ==
    /\ ingress_pc = "lambda"
    /\ pc["a"] = "idle"
    /\ Invoke("a", [RequestType |-> "Create"])

\* nginx_ingress_stack.py:82-102: the chart takes replicaCount from the
\* ReplicaCount attribute of the custom resource, so it is installed after it
HelmChartInstall ==
    /\ ingress_pc = "lambda"
    /\ pc["a"] = "returned"
    /\ helm' = [controller |->
                    [replicaCount |-> result["a"].Data.ReplicaCount]]
    /\ ingress_pc' = "done"
    /\ deploy_order' = Append(deploy_order, "NginxIngressStack")
    /\ UNCHANGED <<appVars, netVars, handlerVars, mapVars>>

\* nothing synthesized, nothing provisioned
AppIdle ==
    /\ ctx_environment = None
    /\ ctx_service_name = NoneName
    /\ ctx_entries = EmptyDict
    /\ app_pc = "start"
    /\ app_error = ""
    /\ env_name = None
    /\ constructed = {}
    /\ deps = {}
    /\ cluster_param = NoParameter
    /\ lambda_environment = EmptyDict
    /\ deploy_order = <<>>
    /\ ingress_pc = "pending"
    /\ helm = NoHelm

(***************************************************************************)
(* Specifications                                                          *)
(***************************************************************************)
HandlerInit ==
    /\ pc = [p \in Slots |-> "idle"]
    /\ event = [p \in Slots |-> EmptyDict]
    /\ param_name = [p \in Slots |-> NoneName]
    /\ observed = [p \in Slots |-> NoRead]
    /\ result = [p \in Slots |-> NoResult]
    /\ error = [p \in Slots |-> ""]
    /\ reads = [p \in Slots |-> 0]

Init ==
    /\ environ \in {EmptyDict} \cup
           { [ENVIRONMENT |-> n] : n \in EnvNames \cup {""} }
    /\ store = EmptyDict
    /\ fault = "none"
    /\ HandlerInit
    /\ arg = None
    /\ ret = 0
    /\ NetInit
    /\ AppIdle

Next ==
    \/ \E p \in Slots, ev \in Events : Invoke(p, ev)
    \/ \E p \in Slots : OnEventEntry(p)
    \/ \E p \in Slots : OnEventFetch(p)
    \/ \E v \in EnvNames \cup {""} : SetEnv(v)
    \/ DelEnv
    \/ \E n \in StoredNames, v \in StoreValues : PutParameter(n, v)
    \/ \E n \in StoredNames : DeleteParameter(n)
    \/ \E f \in Faults : SetFault(f)

Spec == Init /\ [][Next]_vars

\* the mapping called directly on bounded inputs
InitMap ==
    /\ environ = EmptyDict
    /\ store = EmptyDict
    /\ fault = "none"
    /\ HandlerInit
    /\ arg \in MapInputs
    /\ ret = 0
    /\ NetInit
    /\ AppIdle

NextMap ==
    \/ ApplyMap
    \/ \E v \in MapInputs : NextInput(v)

SpecMap == InitMap /\ [][NextMap]_vars

\* slot "a" runs assets/_lambda/handler.py, slot "b" assets/lambda/handler.py
NextCopies ==
    \/ \E p \in Slots, ev \in Events : Invoke(p, ev)
    \/ OnEventEntry("a")
    \/ OnEventFetch("a")
    \/ LambdaOnEventEntry("b")
    \/ LambdaOnEventFetch("b")
    \/ \E v \in EnvNames \cup {""} : SetEnv(v)
    \/ DelEnv
    \/ \E n \in StoredNames, v \in StoreValues : PutParameter(n, v)
    \/ \E n \in StoredNames : DeleteParameter(n)
    \/ \E f \in Faults : SetFault(f)

SpecCopies == Init /\ [][NextCopies]_vars

\* NetworkStack constructed on bounded vpc_cidr strings
InitNet ==
    /\ environ = EmptyDict
    /\ store = EmptyDict
    /\ fault = "none"
    /\ HandlerInit
    /\ arg = None
    /\ ret = 0
    /\ NetInit
    /\ AppIdle

NextNet ==
    \/ \E cidr \in CidrInputs : NetworkStackInit(cidr)
    \/ NetworkStackValidate
    \/ NetworkStackCreateVpc

SpecNet == InitNet /\ [][NextNet]_vars

\* app.py run on a bounded context, then the stacks provisioned into an
\* account whose parameter store is empty
InitApp ==
    /\ environ = EmptyDict
    /\ store = EmptyDict
    /\ fault = "none"
    /\ HandlerInit
    /\ arg = None
    /\ ret = 0
    /\ NetInit
    /\ ctx_environment \in CtxEnvironments
    /\ ctx_service_name \in CtxServiceNames
    /\ \E names \in SUBSET EnvKeys, cidr \in CtxCidrs :
           ctx_entries = [n \in names |-> [vpc_cidr |-> cidr]]
    /\ app_pc = "start"
    /\ app_error = ""
    /\ env_name = None
    /\ constructed = {}
    /\ deps = {}
    /\ cluster_param = NoParameter
    /\ lambda_environment = EmptyDict
    /\ deploy_order = <<>>
    /\ ingress_pc = "pending"
    /\ helm = NoHelm

NextApp ==
    \/ AppReadContext
    \/ AppNetworkStack
    \/ NetworkStackValidate
    \/ NetworkStackCreateVpc
    \/ AppNetworkStackReturn
    \/ AppClusterStack
    \/ AppNginxIngressStack
    \/ AppAddDependencies
    \/ AppSynth
    \/ DeployNetworkStack
    \/ DeployClusterStack
    \/ DeployIngressLambda
    \/ CustomResourceCreate
    \/ OnEventEntry("a")
    \/ OnEventFetch("a")
    \/ HelmChartInstall
    \/ \E f \in Faults : SetFault(f)

SpecApp == InitApp /\ [][NextApp]_vars

(***************************************************************************)
(* Properties                                                              *)
(***************************************************************************)
\* lower(trim(v)), None read as ""
Normalized(v) == Lower(Strip(OrEmpty(v)))

RequestTypeOf(p) == DictGet(event[p], "RequestType", "Create")

\* the invocation in slot p read a non-empty ENVIRONMENT
KeySet(p) == ~Falsy(param_name[p])

\* the get_parameter call of slot p failed
FailedRead(p) == observed[p].kind \in {"ClientError", "KeyError", "Exception"}

Fallback == [Data |-> [ReplicaCount |-> 1, EnvironmentValue |-> development]]

\* C1 as stated: every finished Delete invocation, whatever the process
\* environment, returned exactly { ReplicaCount: 1 } and read nothing.
C1_DeleteAlwaysReturnsDefault ==
    \A p \in Slots :
        (pc[p] \in Terminal /\ RequestTypeOf(p) = "Delete") =>
            /\ pc[p] = "returned"
            /\ result[p] = [Data |-> [ReplicaCount |-> 1]]
            /\ reads[p] = 0

\* C1 amended: a Delete invocation never reads the remote store, and when
\* ENVIRONMENT names a key it returns exactly { ReplicaCount: 1 }, with no
\* EnvironmentValue, whatever the state of the remote store.
C1_DeleteWithKeyReturnsDefault ==
    \A p \in Slots :
        RequestTypeOf(p) = "Delete" =>
            /\ pc[p] # "fetch"
            /\ reads[p] = 0
            /\ observed[p] = NoRead
            /\ (pc[p] \in Terminal /\ KeySet(p)) =>
                   /\ pc[p] = "returned"
                   /\ result[p] = [Data |-> [ReplicaCount |-> 1]]
                   /\ "EnvironmentValue" \notin DOMAIN result[p].Data

\* a Delete returned while the service was failing and the parameter absent
C1_Witness ==
    \E p \in Slots :
        /\ pc[p] = "returned"
        /\ RequestTypeOf(p) = "Delete"
        /\ fault # "none"
        /\ store = EmptyDict

\* C2: _replicas_from_env returns 2 exactly when the trimmed, lower-cased
\* argument is "staging" or "production", and 1 in every other case
\* (the empty string and None included).
C2_MapTwoIffStagingOrProduction ==
    ret # 0 =>
        /\ ret = 2 <=> Normalized(arg) \in {staging, production}
        /\ ret = 1 <=> Normalized(arg) \notin {staging, production}

\* the mapping returned 2 for "production" written with padding or capitals
C2_Witness ==
    /\ ret = 2
    /\ arg # production
    /\ Normalized(arg) = production

\* C3: a read that fails with "not found" and a read that fails in any other
\* way give the same result { ReplicaCount: 1, EnvironmentValue: "development" }.
C3_FailedReadGivesFallback ==
    \A p \in Slots :
        (pc[p] \in Terminal /\ FailedRead(p)) =>
            /\ pc[p] = "returned"
            /\ result[p] = Fallback

\* one invocation saw "not found", the other access denied, both returned
C3_Witness ==
    \E p, q \in Slots :
        /\ pc[p] = "returned" /\ pc[q] = "returned"
        /\ observed[p].code = "ParameterNotFound"
        /\ observed[q].code = "AccessDeniedException"
        /\ result[p] = result[q]

\* C4: with ENVIRONMENT unset, on_event raises "ENVIRONMENT environment
\* variable is required" for every event, returns no result and has made no
\* call to the remote store.
C4_UnsetKeyIsFatalBeforeAnyRead ==
    \A p \in Slots :
        (pc[p] \notin {"idle", "entry"} /\ param_name[p] = NoneName) =>
            /\ pc[p] = "raised"
            /\ error[p] = "ENVIRONMENT environment variable is required"
            /\ result[p] = NoResult
            /\ reads[p] = 0
            /\ observed[p] = NoRead

\* a Delete raised because ENVIRONMENT was unset
C4_Witness ==
    \E p \in Slots :
        /\ pc[p] = "raised"
        /\ param_name[p] = NoneName
        /\ RequestTypeOf(p) = "Delete"

\* C5 as stated: the EnvironmentValue returned on Create/Update is the
\* trimmed, lower-cased form of the fetched value.
C5_EnvironmentValueIsNormalized ==
    \A p \in Slots :
        (pc[p] = "returned" /\ observed[p].kind = "ok") =>
            result[p].Data.EnvironmentValue = Normalized(observed[p].value)

\* C5 amended: the EnvironmentValue returned on Create/Update is the fetched
\* value exactly as stored (or "development" after a failed read); only the
\* ReplicaCount is computed from its trimmed, lower-cased form.
C5_EnvironmentValueIsFetchedValue ==
    \A p \in Slots :
        (pc[p] = "returned" /\ RequestTypeOf(p) # "Delete") =>
            /\ observed[p].kind = "ok" =>
                   /\ result[p].Data.EnvironmentValue = observed[p].value
                   /\ result[p].Data.ReplicaCount =
                          IF Normalized(observed[p].value)
                                 \in {staging, production}
                          THEN 2 ELSE 1
            /\ FailedRead(p) =>
                   result[p].Data.EnvironmentValue = development

\* a value that is not in normal form was fetched and returned
C5_Witness ==
    \E p \in Slots :
        /\ pc[p] = "returned"
        /\ observed[p].kind = "ok"
        /\ observed[p].value # Normalized(observed[p].value)
        /\ result[p].Data.ReplicaCount = 2

\* C6: two fetched values that are equal after trimming and lower-casing
\* give the same ReplicaCount.
C6_CaseAndWhitespaceInsensitive ==
    \A p, q \in Slots :
        ( /\ pc[p] = "returned" /\ pc[q] = "returned"
          /\ observed[p].kind = "ok" /\ observed[q].kind = "ok"
          /\ Normalized(observed[p].value) = Normalized(observed[q].value) )
        => result[p].Data.ReplicaCount = result[q].Data.ReplicaCount

\* " Staging " and "staging" were fetched and both gave 2
C6_Witness ==
    \E p, q \in Slots :
        /\ pc[p] = "returned" /\ pc[q] = "returned"
        /\ observed[p].kind = "ok" /\ observed[q].kind = "ok"
        /\ observed[p].value = staging
        /\ observed[q].value # staging
        /\ Normalized(observed[q].value) = staging
        /\ result[p].Data.ReplicaCount = 2
        /\ result[q].Data.ReplicaCount = 2

\* C7: every returned record has a ReplicaCount in {1, 2}.
C7_ReplicaCountIsOneOrTwo ==
    \A p \in Slots :
        pc[p] = "returned" => result[p].Data.ReplicaCount \in {1, 2}

\* both counts were returned, 2 for a fetched "production"
C7_Witness ==
    \E p, q \in Slots :
        /\ pc[p] = "returned" /\ pc[q] = "returned"
        /\ result[p].Data.ReplicaCount = 1
        /\ result[q].Data.ReplicaCount = 2
        /\ observed[q].kind = "ok"
        /\ Normalized(observed[q].value) = production

\* C8: an invocation makes at most one get_parameter call: exactly one once a
\* non-Delete invocation with the key set has finished, none on a Delete or
\* when it raised; a failed read is not tried again; and no step of an
\* invocation changes the remote store.
C8_AtMostOneReadNoWrite ==
    /\ [](\A p \in Slots :
            /\ reads[p] <= 1
            /\ (pc[p] = "returned" /\ RequestTypeOf(p) # "Delete")
                   => reads[p] = 1
            /\ (pc[p] = "raised" \/ RequestTypeOf(p) = "Delete" \/ ~KeySet(p))
                   => reads[p] = 0)
    /\ [][pc' # pc => store' = store]_vars

\* an invocation finished after a single failed read
C8_Witness ==
    \E p \in Slots :
        /\ pc[p] = "returned"
        /\ FailedRead(p)
        /\ reads[p] = 1

\* C9: an invocation that read a non-empty ENVIRONMENT never raises: whatever
\* the event and the outcome of the read, it can always take its next step
\* and ends returning a record with a ReplicaCount in {1, 2}.
C9_OnlyMissingKeyIsFatal ==
    \A p \in Slots :
        /\ pc[p] = "raised" => ~KeySet(p)
        /\ pc[p] = "entry" => ENABLED OnEventEntry(p)
        /\ pc[p] = "fetch" => ENABLED OnEventFetch(p)
        /\ (pc[p] \in Terminal /\ KeySet(p)) =>
               /\ pc[p] = "returned"
               /\ result[p].Data.ReplicaCount \in {1, 2}

\* an invocation returned although get_parameter raised a non-ClientError
C9_Witness ==
    \E p \in Slots :
        /\ pc[p] = "returned"
        /\ observed[p].kind \in {"KeyError", "Exception"}
        /\ result[p].Data.ReplicaCount = 1

C11_MissingRequestTypeIsCreate ==
    /\ \A p, q \in Slots :
           ( /\ pc[p] \in Terminal /\ pc[q] \in Terminal
             /\ event[p] = EmptyDict
             /\ event[q] = [RequestType |-> "Create"]
             /\ param_name[p] = param_name[q]
             /\ observed[p] = observed[q] )
           => /\ pc[p] = pc[q]
              /\ result[p] = result[q]
              /\ reads[p] = reads[q]
    /\ \A p \in Slots :
           (pc[p] \in Terminal /\ event[p] = EmptyDict /\ KeySet(p)) =>
               /\ reads[p] = 1
               /\ "EnvironmentValue" \in DOMAIN result[p].Data

\* an event without RequestType and a Create event fetched the same value
C11_Witness ==
    \E p, q \in Slots :
        /\ pc[p] = "returned" /\ pc[q] = "returned"
        /\ event[p] = EmptyDict
        /\ event[q] = [RequestType |-> "Create"]
        /\ observed[p].kind = "ok"
        /\ observed[p] = observed[q]
        /\ result[p] = result[q]

\* C12: a Create and an Update with the key set both fetch the remote value
\* and return a Data with exactly the keys ReplicaCount and EnvironmentValue,
\* and the same record for the same outcome of the read.
C12_CreateAndUpdateHandledAlike ==
    /\ \A p \in Slots :
           ( /\ pc[p] \in Terminal
             /\ event[p] \in {[RequestType |-> "Create"],
                              [RequestType |-> "Update"]}
             /\ KeySet(p) )
           => /\ pc[p] = "returned"
              /\ reads[p] = 1
              /\ observed[p] # NoRead
              /\ DOMAIN result[p] = {"Data"}
              /\ DOMAIN result[p].Data = {"ReplicaCount", "EnvironmentValue"}
    /\ \A p, q \in Slots :
           ( /\ pc[p] \in Terminal /\ pc[q] \in Terminal
             /\ event[p] = [RequestType |-> "Create"]
             /\ event[q] = [RequestType |-> "Update"]
             /\ KeySet(p) /\ KeySet(q)
             /\ observed[p] = observed[q] )
           => result[p] = result[q]

\* a Create and an Update fetched the same value and returned 2 for it
C12_Witness ==
    \E p, q \in Slots :
        /\ pc[p] = "returned" /\ pc[q] = "returned"
        /\ event[p] = [RequestType |-> "Create"]
        /\ event[q] = [RequestType |-> "Update"]
        /\ observed[p].kind = "ok"
        /\ observed[p] = observed[q]
        /\ result[q].Data.ReplicaCount = 2

\* what on_event does when it runs alone with event ev, ENVIRONMENT name and
\* a get_parameter call that answers obs
RunAlone(ev, name, obs) ==
    IF Falsy(name)
    THEN [pc |-> "raised", result |-> NoResult,
          error |-> "ENVIRONMENT environment variable is required"]
    ELSE IF DictGet(ev, "RequestType", "Create") = "Delete"
    THEN [pc |-> "returned", result |-> [Data |-> [ReplicaCount |-> 1]],
          error |-> ""]
    ELSE IF obs.kind = "ok"
    THEN [pc |-> "returned",
          result |-> [Data |->
              [ReplicaCount |-> IF Normalized(obs.value)
                                       \in {staging, production}
                                THEN 2 ELSE 1,
               EnvironmentValue |-> obs.value]],
          error |-> ""]
    ELSE [pc |-> "returned", result |-> Fallback, error |-> ""]

\* C13: under every interleaving of the two invocations, a finished
\* invocation ended as it would have ended alone with its own event, its own
\* ENVIRONMENT and the outcome of its own read; an unfinished one holds no
\* result yet.
C13_ConcurrentInvocationsIndependent ==
    \A p \in Slots :
        /\ pc[p] \in Terminal =>
               LET alone == RunAlone(event[p], param_name[p], observed[p])
               IN  /\ pc[p] = alone.pc
                   /\ result[p] = alone.result
                   /\ error[p] = alone.error
        /\ pc[p] \in {"entry", "fetch"} =>
               /\ result[p] = NoResult
               /\ observed[p] = NoRead

\* one invocation returned 2 while the other, a Delete or an Update, was
\* still running
C13_Witness ==
    \E p, q \in Slots :
        /\ pc[p] = "returned"
        /\ observed[p].kind = "ok"
        /\ result[p].Data.ReplicaCount = 2
        /\ pc[q] \in {"entry", "fetch"}
        /\ event[q] # event[p]

\* C18: run on the same event, with the same ENVIRONMENT and the same outcome
\* of the remote read, the deployed handler (slot "a") and its copy (slot "b")
\* both raise the same error or both return the same Data, after the same
\* number of get_parameter calls.
C18_HandlerCopiesEquivalent ==
    ( /\ pc["a"] \in Terminal /\ pc["b"] \in Terminal
      /\ event["a"] = event["b"]
      /\ param_name["a"] = param_name["b"]
      /\ observed["a"] = observed["b"] )
    => /\ pc["a"] = pc["b"]
       /\ error["a"] = error["b"]
       /\ reads["a"] = reads["b"]
       /\ pc["a"] = "returned" => result["a"].Data = result["b"].Data

\* both copies returned after the same non-ClientError failure of the read
C18_Witness ==
    /\ pc["a"] = "returned" /\ pc["b"] = "returned"
    /\ event["a"] = event["b"]
    /\ observed["a"].code = "EndpointConnectionError"
    /\ observed["a"] = observed["b"]
    /\ "PhysicalResourceId" \in DOMAIN result["b"]
    /\ result["a"].Data = result["b"].Data

\* vpc_cidr is a network ip_network accepts, written as address/prefix length
ValidCidr(s) == IpNetworkOk(s) /\ HasPrefixLength(s)

ResolverInvoked == pc["a"] # "idle"

Before(s, t) ==
    \E i, j \in 1..Len(deploy_order) :
        /\ i < j
        /\ deploy_order[i] = s
        /\ deploy_order[j] = t

\* C19: once app.py has read its context, the environment name is "dev"
\* when no "environment" context is given; and when the selected name has no
\* context entry, or there is no "service_name" context, the run has ended
\* with ValueError and no stack has been constructed, nor has the
\* construction of one begun.
C19_ContextValidatedBeforeStacks ==
    app_pc # "start" =>
        /\ ctx_environment = None => env_name = dev
        /\ (\/ env_name \notin DOMAIN ctx_entries
            \/ ctx_service_name \in {NoneName, ""}) =>
               /\ app_pc = "aborted"
               /\ app_error = "ValueError"
               /\ constructed = {}
               /\ net_pc = "new"
               /\ cluster_param = NoParameter

\* no "environment" was given, "dev" has an entry, service_name is missing
C19_Witness ==
    /\ app_pc = "aborted"
    /\ app_error = "ValueError"
    /\ ctx_environment = None
    /\ env_name = dev
    /\ dev \in DOMAIN ctx_entries
    /\ ctx_service_name = NoneName
    /\ constructed = {}

\* C15: once ClusterStack is constructed for one of the available
\* environments, the value it stores under /platform/account/env maps to 2
\* replicas for stg and prod and to 1 replica for dev; and the chart is
\* installed with that number.
C15_StoredValueScalesWithEnvironment ==
    ("ClusterStack" \in constructed /\ env_name \in EnvKeys) =>
        LET n == IF env_name \in {stg, prod} THEN 2 ELSE 1
        IN  /\ cluster_param.Name = "/platform/account/env"
            /\ _replicas_from_env(cluster_param.Value) = n
            /\ helm # NoHelm => helm.controller.replicaCount = n

\* C16: the declared dependencies are the chain NetworkStack, ClusterStack,
\* NginxIngressStack; no stack is provisioned before the one it follows in
\* the chain; and the chart is installed only after the custom resource has
\* returned, with the ReplicaCount it returned.
C16_StacksAndChartInDependencyOrder ==
    /\ app_pc \in {"synth", "synthesized"} =>
           deps = { <<"ClusterStack", "NetworkStack">>,
                    <<"NginxIngressStack", "ClusterStack">> }
    /\ "ClusterStack" \in Deployed =>
           Before("NetworkStack", "ClusterStack")
    /\ ingress_pc # "pending" => "ClusterStack" \in Deployed
    /\ "NginxIngressStack" \in Deployed =>
           /\ Before("ClusterStack", "NginxIngressStack")
           /\ helm # NoHelm
    /\ ResolverInvoked => ingress_pc # "pending"
    /\ helm # NoHelm =>
           /\ pc["a"] = "returned"
           /\ helm.controller.replicaCount = result["a"].Data.ReplicaCount

\* the three stacks are provisioned and the chart is installed
C16_Witness ==
    /\ deploy_order = <<"NetworkStack", "ClusterStack", "NginxIngressStack">>
    /\ pc["a"] = "returned"
    /\ helm = [controller |-> [replicaCount |-> 1]]

\* C17: the lambda's ENVIRONMENT variable names the parameter ClusterStack
\* declares; the Create invocation is made only when that parameter is in
\* the store; and no Create ends with a read that found no parameter.
C17_CreateReadsAfterParameterWritten ==
    /\ "NginxIngressStack" \in constructed =>
           /\ lambda_environment.ENVIRONMENT = "/platform/account/env"
           /\ lambda_environment.ENVIRONMENT = cluster_param.Name
    /\ ResolverInvoked =>
           /\ event["a"] = [RequestType |-> "Create"]
           /\ environ["ENVIRONMENT"] \in DOMAIN store
           /\ store[environ["ENVIRONMENT"]] = cluster_param.Value
    /\ pc["a"] \in Terminal =>
           /\ pc["a"] = "returned"
           /\ observed["a"].code # "ParameterNotFound"

\* the Create returned the value ClusterStack stored
C17_Witness ==
    /\ pc["a"] = "returned"
    /\ reads["a"] = 1
    /\ observed["a"].kind = "ok"
    /\ result["a"].Data.EnvironmentValue = cluster_param.Value
    /\ "NginxIngressStack" \notin Deployed

====
